---- MODULE Spec2Model ----
(***************************************************************************)
(* Habit tracker (Flask + SQLAlchemy over SQLite): the habits and entries  *)
(* tables, the JSON API that changes them, the StatsService queries and    *)
(* the week view that reports them, and the readiness gate and toggles as  *)
(* concurrent worker threads run them next to the db_utils seed command.   *)
(*                                                                         *)
(* Dates are proleptic Gregorian ordinals (date.toordinal()).  Python      *)
(* floats are modelled by exact fractions [n, d]; round(x, 1) yields an    *)
(* integer number of tenths.  A habit row keeps id, user_id and position;  *)
(* name, category, emoji and created_at are carried along by the code and  *)
(* read by none of its computations.                                       *)
(***************************************************************************)
EXTENDS Integers, Sequences, FiniteSets, TLC

VARIABLES
    habits,     \* table habits:  set of rows [id, user_id, position]
    entries,    \* table entries: set of rows [id, habit_id, date, completed]
    resp,       \* the last request served and what it answered
    db_ready,   \* the module global _db_ready
    setups,     \* how often the setup body of ensure_db_ready has run
    threads,    \* the server's worker threads: where each is in its request
    seeding     \* the db_utils seed command: where it is, its open session

vars == <<habits, entries, resp, db_ready, setups, threads, seeding>>

\* what a request served by one worker from start to end, the flag being set,
\* and a db_utils command other than seed leave as they are
workers == <<db_ready, setups, threads, seeding>>

----------------------------------------------------------------------------
(* Bounds of the model *)

MaxHabitId == 2     \* habit rows are created while the next rowid is <= this
MaxEntryId == 2     \* entry rows are created while the next rowid is <= this
NStatDays == 5      \* days of history the StatsService runs are given

Users == {1, 2}     \* users with a session
NoUser == 0         \* user_id NULL
Threads == {1, 2}   \* worker threads of the server

\* a worker between two requests
Idle == [pc |-> "idle", u |-> NoUser, habit_id |-> 0, date |-> 0, entry |-> 0,
         completed |-> FALSE]

\* the seed command not running
NotSeeding == [pc |-> "off", i |-> 0, pending |-> {}, flushed |-> {}]

\* python app.py: __main__ ran ensure_db_ready once before app.run, no
\* request is being served and no seed command runs
Started ==
    /\ db_ready = TRUE
    /\ setups = 1
    /\ threads = [t \in Threads |-> Idle]
    /\ seeding = NotSeeding

----------------------------------------------------------------------------
(* Small helpers *)

Max(S) == CHOOSE x \in S : \A y \in S : y <= x

RECURSIVE SumOver(_, _)
SumOver(S, f) ==
    IF S = {} THEN 0
    ELSE LET x == CHOOSE y \in S : TRUE IN f[x] + SumOver(S \ {x}, f)

\* datetime._is_leap / _days_before_year / _days_before_month / _ymd2ord
is_leap(y) == y % 4 = 0 /\ (y % 100 # 0 \/ y % 400 = 0)

days_before_year(y) ==
    (y - 1) * 365 + ((y - 1) \div 4) - ((y - 1) \div 100) + ((y - 1) \div 400)

days_in_month(y, m) ==
    IF m = 2 THEN (IF is_leap(y) THEN 29 ELSE 28)
    ELSE IF m \in {4, 6, 9, 11} THEN 30 ELSE 31

RECURSIVE days_before_month(_, _)
days_before_month(y, m) ==
    IF m = 1 THEN 0 ELSE days_before_month(y, m - 1) + days_in_month(y, m - 1)

\* date(y, m, d) as an ordinal
date(y, m, d) == days_before_year(y) + days_before_month(y, m) + d

\* date.weekday(): Monday = 0 .. Sunday = 6
weekday(ord) == (ord + 6) % 7

----------------------------------------------------------------------------
(* The tables *)

\* INTEGER PRIMARY KEY without AUTOINCREMENT: the next rowid is max(rowid) + 1
next_rowid(table) == IF table = {} THEN 1 ELSE Max({r.id : r \in table}) + 1

\* a table without the constraint takes every row
no_constraint(E) == TRUE

\* UniqueConstraint('habit_id', 'date', name='habit_date_uc')
habit_date_uc(E) ==
    \A a, b \in E : (a.habit_id = b.habit_id /\ a.date = b.date) => a.id = b.id

\* the lookup by id alone, whoever owns the habit
habit_of_any_user(habit_id, u) ==
    {h \in habits : h.id = habit_id}

\* Habit.query.filter_by(id=habit_id, user_id=u.id).first()
habit_of(habit_id, u) ==
    {h \in habits : h.id = habit_id /\ h.user_id = u}

\* the session user's row: get_or_create_user_by_name keeps one row per name
current_user(u) == u

RefDay == date(2025, 9, 28)
ToggleDates == {RefDay - 1, RefDay}    \* days a toggle request names
HabitIds == 1..MaxHabitId
PositionInputs == {2}

----------------------------------------------------------------------------
(* Numbers: a Python float is kept as the exact fraction n/d, d > 0 *)

frac(n, d) == [n |-> n, d |-> d]

frac_sub(a, b) == frac(a.n * b.d - b.n * a.d, a.d * b.d)

\* round(x, 1), as a number of tenths: to nearest, ties to even
round1(q) ==
    LET sign == IF q.n < 0 THEN -1 ELSE 1
        a == sign * q.n * 10
        fl == a \div q.d
        twice == 2 * (a % q.d)
        up == twice > q.d \/ (twice = q.d /\ fl % 2 = 1)
    IN  sign * (IF up THEN fl + 1 ELSE fl)

----------------------------------------------------------------------------
(* StatsService *)

\* .order_by(Entry.date): the rows as a sequence, oldest first
RECURSIVE order_by_date(_)
order_by_date(rows) ==
    IF rows = {} THEN <<>>
    ELSE LET r == CHOOSE x \in rows : \A y \in rows :
                      x.date < y.date \/ (x.date = y.date /\ x.id <= y.id)
         IN  <<r>> \o order_by_date(rows \ {r})

\* .order_by(Entry.date.desc())
order_by_date_desc(rows) ==
    LET asc == order_by_date(rows) IN
    [i \in 1..Len(asc) |-> asc[Len(asc) + 1 - i]]

\* a range query that forgets its upper end
rate_query_open_end(habit_id, start_date, end_date) ==
    {e \in entries : e.habit_id = habit_id /\ e.date >= start_date}

\* Entry.query.filter(habit_id == .., date >= start_date, date <= end_date)
rate_query(habit_id, start_date, end_date) ==
    {e \in entries : e.habit_id = habit_id /\ e.date >= start_date
                     /\ e.date <= end_date}

get_completion_rate(habit_id, start_date, end_date) ==
    LET rows == rate_query(habit_id, start_date, end_date)
        total_days == (end_date - start_date) + 1
        completed == Cardinality({e \in rows : e.completed})
    IN  IF total_days > 0 THEN frac(completed * 100, total_days) ELSE frac(0, 1)

\* Entry.query.filter(habit_id == .., date <= reference_date, completed == True)
current_query(habit_id, reference_date) ==
    {e \in entries : e.habit_id = habit_id /\ e.date <= reference_date
                     /\ e.completed}

\* the for loop of get_current_streak from the i-th row on
RECURSIVE current_walk(_, _, _, _)
current_walk(rows, i, streak, expected_date) ==
    IF i > Len(rows) THEN streak
    ELSE IF rows[i].date = expected_date
         THEN current_walk(rows, i + 1, streak + 1, expected_date - 1)
    ELSE IF rows[i].date < expected_date THEN streak
    ELSE current_walk(rows, i + 1, streak, expected_date)

\* a streak counted back from the latest completed day, not from the
\* reference date
current_from_latest(habit_id, reference_date) ==
    LET rows == order_by_date_desc(current_query(habit_id, reference_date)) IN
    IF rows = <<>> THEN 0 ELSE current_walk(rows, 1, 0, rows[1].date)

get_current_streak(habit_id, reference_date) ==
    LET rows == order_by_date_desc(current_query(habit_id, reference_date)) IN
    IF rows = <<>> THEN 0 ELSE current_walk(rows, 1, 0, reference_date)

\* Entry.query.filter(habit_id == .., completed == True)
longest_query(habit_id) ==
    {e \in entries : e.habit_id = habit_id /\ e.completed}

\* a loop that does not start the run again after a gap
RECURSIVE longest_walk_no_reset(_, _, _, _, _)
longest_walk_no_reset(rows, i, max_streak, current_streak, last_date) ==
    IF i > Len(rows) THEN max_streak
    ELSE IF rows[i].date - last_date = 1
         THEN longest_walk_no_reset(rows, i + 1,
                  IF current_streak + 1 > max_streak
                      THEN current_streak + 1 ELSE max_streak,
                  current_streak + 1, rows[i].date)
    ELSE longest_walk_no_reset(rows, i + 1, max_streak, current_streak, rows[i].date)

\* the for loop of get_longest_streak from the i-th row on
RECURSIVE longest_walk(_, _, _, _, _)
longest_walk(rows, i, max_streak, current_streak, last_date) ==
    IF i > Len(rows) THEN max_streak
    ELSE IF rows[i].date - last_date = 1
         THEN longest_walk(rows, i + 1,
                  IF current_streak + 1 > max_streak
                      THEN current_streak + 1 ELSE max_streak,
                  current_streak + 1, rows[i].date)
    ELSE longest_walk(rows, i + 1, max_streak, 1, rows[i].date)

\* a longest streak that never looks past the first row
longest_first_row_only(habit_id) ==
    IF longest_query(habit_id) = {} THEN 0 ELSE 1

get_longest_streak(habit_id) ==
    LET rows == order_by_date(longest_query(habit_id)) IN
    IF rows = <<>> THEN 0 ELSE longest_walk(rows, 2, 1, 1, rows[1].date)

\* a previous window that starts and ends one day early
previous_window_early(reference_date) ==
    <<reference_date - 14, reference_date - 8>>

\* previous_start, previous_end
previous_window(reference_date) ==
    <<reference_date - 13, reference_date - 7>>

get_trend(habit_id, reference_date) ==
    LET recent_start == reference_date - 6
        previous == previous_window(reference_date)
        recent_rate == get_completion_rate(habit_id, recent_start, reference_date)
        previous_rate == get_completion_rate(habit_id, previous[1], previous[2])
    IN  frac_sub(recent_rate, previous_rate)

\* The SELECTs on the entries table one call of each StatsService method
\* issues: each runs its own Entry.query ... .all(), get_trend through two
\* calls of get_completion_rate
rate_fetches(habit_id, start_date, end_date) == 1

current_fetches(habit_id, reference_date) == 1

longest_fetches(habit_id) == 1

trend_fetches(habit_id, reference_date) ==
    rate_fetches(habit_id, reference_date - 6, reference_date)
    + rate_fetches(habit_id, previous_window(reference_date)[1],
                   previous_window(reference_date)[2])

----------------------------------------------------------------------------
(* Week view *)

\* a week start computed with isoweekday() (Monday = 1) for weekday()
week_start_isoweekday(year, week) ==
    LET jan_4 == date(year, 1, 4) IN
    (jan_4 - (weekday(jan_4) + 1)) + 7 * (week - 1)

\* jan_4 + timedelta(days=-jan_4.weekday(), weeks=week-1)
week_start(year, week) ==
    LET jan_4 == date(year, 1, 4) IN
    (jan_4 - weekday(jan_4)) + 7 * (week - 1)

\* rate = (completed / 7 * 100) if completed > 0 else 0
week_rate(completed) ==
    IF completed > 0 THEN frac(completed * 100, 7) ELSE frac(0, 1)

\* year and week come from the URL (or, left out, are today's ISO year and
\* week); stats is the list of per-habit dicts, here keyed by habit id, with
\* rate and trend in tenths; overall_rate is passed on as computed
week_view(u, year, week) ==
    LET start_date == week_start(year, week)
        end_date == start_date + 6
        habit_ids == {h.id : h \in {g \in habits : g.user_id = current_user(u)}}
        fetched == {e \in entries : e.habit_id \in habit_ids
                                    /\ e.date >= start_date /\ e.date <= end_date}
        stat(id) ==
            LET completed ==
                    Cardinality({e \in fetched : e.habit_id = id /\ e.completed})
            IN  [rate |-> round1(week_rate(completed)),
                 completed |-> completed,
                 current_streak |-> get_current_streak(id, end_date),
                 longest_streak |-> get_longest_streak(id),
                 trend |-> round1(get_trend(id, end_date))]
        stats == [id \in habit_ids |-> stat(id)]
        rates == [id \in habit_ids |-> stats[id].rate]
        overall_rate ==
            IF habit_ids # {}
            THEN frac(SumOver(habit_ids, rates), 10 * Cardinality(habit_ids))
            ELSE frac(0, 1)
        \* the week's batch (skipped without habits), then per habit the
        \* three StatsService calls of the loop
        entry_fetches ==
            (IF habit_ids # {} THEN 1 ELSE 0)
            + SumOver(habit_ids,
                  [id \in habit_ids |-> current_fetches(id, end_date)
                                        + longest_fetches(id)
                                        + trend_fetches(id, end_date)])
    IN  /\ resp' = [op |-> "week_view", status |-> 200, year |-> year, week |-> week,
                    start_date |-> start_date, end_date |-> end_date,
                    stats |-> stats, overall_rate |-> overall_rate,
                    entry_fetches |-> entry_fetches]
        /\ UNCHANGED <<habits, entries, workers>>

----------------------------------------------------------------------------
(* JSON API *)

\* db.session.query(db.func.max(Habit.position)).filter(...).scalar() or -1
\* None and 0 are both falsy, so both give -1
max_pos(u) ==
    LET ps == {h.position : h \in {g \in habits : g.user_id = u}} IN
    IF ps = {} \/ Max(ps) = 0 THEN -1 ELSE Max(ps)

api_create_habit(u) ==
    LET id == next_rowid(habits) IN
    /\ id <= MaxHabitId
    /\ habits' = habits \cup
           {[id |-> id, user_id |-> current_user(u), position |-> max_pos(u) + 1]}
    /\ resp' = [op |-> "api_create_habit", status |-> 200]
    /\ UNCHANGED <<entries, workers>>

\* data is the request JSON: hasPos says whether it has the key 'position'
api_update_habit(u, habit_id, hasPos, pos) ==
    LET found == habit_of(habit_id, current_user(u)) IN
    IF found = {} THEN
        /\ resp' = [op |-> "api_update_habit", status |-> 404]
        /\ UNCHANGED <<habits, entries, workers>>
    ELSE
        /\ habits' = {IF h \in found /\ hasPos
                         THEN [h EXCEPT !.position = pos] ELSE h : h \in habits}
        /\ resp' = [op |-> "api_update_habit", status |-> 200]
        /\ UNCHANGED <<entries, workers>>

\* a relationship without the cascade: the habit's entries stay behind
delete_no_cascade(habit_id) == entries

\* relationship('Entry', cascade='all, delete-orphan'): session.delete(habit)
\* deletes the habit's entries with it
delete_cascade(habit_id) == {e \in entries : e.habit_id # habit_id}

api_delete_habit(u, habit_id) ==
    LET found == habit_of(habit_id, current_user(u)) IN
    IF found = {} THEN
        /\ resp' = [op |-> "api_delete_habit", status |-> 404]
        /\ UNCHANGED <<habits, entries, workers>>
    ELSE
        /\ habits' = habits \ found
        /\ entries' = delete_cascade(habit_id)
        /\ resp' = [op |-> "api_delete_habit", status |-> 200]
        /\ UNCHANGED workers

\* Entry.query.filter_by(habit_id=habit.id, date=target_date).first()
entry_of(habit_id, d) ==
    {e \in entries : e.habit_id = habit_id /\ e.date = d}

first(rows) == CHOOSE r \in rows : \A q \in rows : r.id <= q.id

api_toggle(u, habit_id, d) ==
    LET found == habit_of(habit_id, current_user(u))
        hit == entry_of(habit_id, d) IN
    IF found = {} THEN
        /\ resp' = [op |-> "api_toggle", status |-> 404]
        /\ UNCHANGED <<habits, entries, workers>>
    ELSE IF hit # {} THEN
        LET entry == first(hit) IN
        /\ entries' = (entries \ {entry}) \cup
               {[entry EXCEPT !.completed = ~entry.completed]}
        /\ resp' = [op |-> "api_toggle", status |-> 200]
        /\ UNCHANGED <<habits, workers>>
    ELSE
        LET id == next_rowid(entries) IN
        /\ id <= MaxEntryId
        /\ entries' = entries \cup
               {[id |-> id, habit_id |-> habit_id, date |-> d, completed |-> TRUE]}
        /\ resp' = [op |-> "api_toggle", status |-> 200]
        /\ UNCHANGED <<habits, workers>>

----------------------------------------------------------------------------
(* db_utils.py *)

\* backup files import_from_json may be given: the 'habits' and 'entries'
\* lists of each.  The third names a habit the file does not have, the fourth
\* has two entries for one (habit, date)
Backups ==
    {<<  <<>>, <<>>  >>,
     <<  <<[id |-> 7, position |-> 0]>>,
         <<[habit_id |-> 7, date |-> RefDay, completed |-> FALSE]>>  >>,
     <<  <<[id |-> 7, position |-> 0]>>,
         <<[habit_id |-> 8, date |-> RefDay, completed |-> TRUE]>>  >>,
     <<  <<[id |-> 7, position |-> 0]>>,
         <<[habit_id |-> 7, date |-> RefDay, completed |-> TRUE],
           [habit_id |-> 7, date |-> RefDay, completed |-> FALSE]>>  >>}

\* the rows the two import loops add to the emptied tables: the i-th habit of
\* the file is flushed with rowid i (habit_map[h['id']] = habit.id); Habit(...)
\* is given no user_id
imported_habits(hs) ==
    {[id |-> i, user_id |-> NoUser, position |-> hs[i].position] : i \in 1..Len(hs)}

habit_map(hs, old) == Max({i \in 1..Len(hs) : hs[i].id = old})

imported_entries(hs, es) ==
    {[id |-> i, habit_id |-> habit_map(hs, es[i].habit_id), date |-> es[i].date,
      completed |-> es[i].completed] : i \in 1..Len(es)}

\* readable: the file exists and parses.  legacy: the habits table of the
\* database file predates user_id, which migrate_db_multitenant then added as
\* a nullable column; a table made by create_all has it NOT NULL.  Everything
\* after the committed deletes either commits as a whole or is rolled back
\* (except Exception)
import_from_json(readable, legacy, hs, es) ==
    /\ resp' = [op |-> "import_from_json", status |-> 0]
    /\ UNCHANGED workers
    /\ IF ~readable THEN UNCHANGED <<habits, entries>>
       ELSE IF /\ hs # <<>> => legacy                        \* NOT NULL user_id
               /\ \A i \in 1..Len(es) :
                      \E j \in 1..Len(hs) : hs[j].id = es[i].habit_id  \* KeyError
               /\ habit_date_uc(imported_entries(hs, es))
            THEN /\ habits' = imported_habits(hs)
                 /\ entries' = imported_entries(hs, es)
            ELSE /\ habits' = {}
                 /\ entries' = {}

----------------------------------------------------------------------------
(* The application serving requests one after another *)

Init ==
    /\ habits = {}
    /\ entries = {}
    /\ resp = [op |-> "start", status |-> 0]
    /\ Started

Next ==
    \/ \E u \in Users : api_create_habit(u)
    \/ \E u \in Users, id \in HabitIds, hasPos \in BOOLEAN, pos \in PositionInputs :
           api_update_habit(u, id, hasPos, pos)
    \/ \E u \in Users, id \in HabitIds : api_delete_habit(u, id)
    \/ \E u \in Users, id \in HabitIds, d \in ToggleDates : api_toggle(u, id, d)
    \/ \E readable, legacy \in BOOLEAN, b \in Backups :
           import_from_json(readable, legacy, b[1], b[2])

Spec == Init /\ [][Next]_vars

----------------------------------------------------------------------------
(* Claims about the API *)

\* the habit api_create_habit has just added: rowids grow, so it has the largest
created == CHOOSE h \in habits : \A g \in habits : g.id <= h.id

\* C4: a habit created through api_create_habit gets the position
\* max(positions of the habits the same user already has) + 1
C4_PositionIsMaxPlusOne ==
    resp.op = "api_create_habit" =>
        LET others == {h \in habits : h.user_id = created.user_id /\ h.id # created.id}
        IN  others # {} => created.position = Max({h.position : h \in others}) + 1

NoOrphanEntries == \A e \in entries : \E h \in habits : h.id = e.habit_id

DeleteRemovesOwnEntriesOnly ==
    (resp'.op = "api_delete_habit" /\ resp'.status = 200) =>
        LET gone == {h.id : h \in habits \ habits'} IN
        /\ gone # {}
        /\ entries' = {e \in entries : e.habit_id \notin gone}

\* C10: every completion record refers to a habit that exists, in every state;
\* a delete removes all records of the deleted habit and no record of another
C10_EntriesNeverOutliveHabit ==
    []NoOrphanEntries /\ [][DeleteRemovesOwnEntriesOnly]_vars

\* a delete has just been served that left the second record made in place
\* while the first one is gone
C10_Witness ==
    /\ resp.op = "api_delete_habit" /\ resp.status = 200
    /\ habits # {}
    /\ {e.id : e \in entries} = {2}

----------------------------------------------------------------------------
(* StatsService called on the records of a habit *)

StatDays == (RefDay - NStatDays + 1)..RefDay
RefDates == (RefDay - NStatDays)..(RefDay + 1)

\* the rows of habit 1 for a choice, per day, of no record, a completed record
\* or a record with completed = False; habit 2 has a completed record on each
\* of the seven days up to RefDay
stat_rows(f) ==
    LET mine == {d \in StatDays : f[d] # "none"} IN
    {[id |-> Cardinality({x \in mine : x <= d}), habit_id |-> 1, date |-> d,
      completed |-> (f[d] = "done")] : d \in mine}
    \cup {[id |-> Cardinality(mine) + (d - (RefDay - 7)), habit_id |-> 2,
           date |-> d, completed |-> TRUE] : d \in (RefDay - 6)..RefDay}

InitStats ==
    /\ habits = {[id |-> 1, user_id |-> 1, position |-> 0],
                 [id |-> 2, user_id |-> 1, position |-> 1]}
    /\ entries \in {stat_rows(f) : f \in [StatDays -> {"none", "done", "undone"}]}
    /\ resp = [op |-> "start", status |-> 0]
    /\ Started

call_get_current_streak(habit_id, reference_date) ==
    /\ resp' = [op |-> "get_current_streak", status |-> 200, habit_id |-> habit_id,
                reference_date |-> reference_date,
                value |-> get_current_streak(habit_id, reference_date)]
    /\ UNCHANGED <<habits, entries, workers>>

call_get_longest_streak(habit_id) ==
    /\ resp' = [op |-> "get_longest_streak", status |-> 200, habit_id |-> habit_id,
                value |-> get_longest_streak(habit_id)]
    /\ UNCHANGED <<habits, entries, workers>>

call_get_completion_rate(habit_id, start_date, end_date) ==
    /\ resp' = [op |-> "get_completion_rate", status |-> 200, habit_id |-> habit_id,
                start_date |-> start_date, end_date |-> end_date,
                value |-> get_completion_rate(habit_id, start_date, end_date)]
    /\ UNCHANGED <<habits, entries, workers>>

call_get_trend(habit_id, reference_date) ==
    /\ resp' = [op |-> "get_trend", status |-> 200, habit_id |-> habit_id,
                reference_date |-> reference_date,
                value |-> get_trend(habit_id, reference_date)]
    /\ UNCHANGED <<habits, entries, workers>>

NextStats ==
    \/ \E ref \in RefDates : call_get_current_streak(1, ref)
    \/ call_get_longest_streak(1)
    \/ \E s \in RefDates, e \in RefDates : call_get_completion_rate(1, s, e)
    \/ \E ref \in RefDates : call_get_trend(1, ref)
    \/ week_view(1, 2025, 39)

SpecStats == InitStats /\ [][NextStats]_vars

----------------------------------------------------------------------------
(* Claims about the StatsService *)

\* the habit has a completed record on day d
completed_on(habit_id, d) ==
    \E e \in entries : e.habit_id = habit_id /\ e.date = d /\ e.completed

\* C1: if the habit is completed on the reference date and on every day back
\* to reference date - k + 1, and not on reference date - k, the current
\* streak is k; so it is 0 whenever the reference date itself is not completed
C1_CurrentStreakCountsBack ==
    resp.op = "get_current_streak" =>
        \A k \in 0..(NStatDays + 2) :
            ( /\ \A i \in 0..(k - 1) : completed_on(resp.habit_id, resp.reference_date - i)
              /\ ~completed_on(resp.habit_id, resp.reference_date - k) )
            => resp.value = k

\* a streak of 2 ending at the reference date, before it a record with
\* completed = False and then a completed day, after it a completed day
C1_Witness ==
    /\ resp.op = "get_current_streak" /\ resp.habit_id = 1 /\ resp.value = 2
    /\ resp.reference_date = RefDay - 1
    /\ \E e \in entries : e.habit_id = 1 /\ e.date = RefDay - 3 /\ ~e.completed
    /\ completed_on(1, RefDay - 4)
    /\ completed_on(1, RefDay)

\* C3: the longest streak is at least the current streak at any reference
\* date that is not after the latest date in the habit's records
C3_LongestAtLeastCurrent ==
    (/\ resp.op = "get_current_streak"
     /\ \E e \in entries : e.habit_id = resp.habit_id /\ resp.reference_date <= e.date)
    => get_longest_streak(resp.habit_id) >= resp.value

\* the current streak is 2 at a reference date before the latest record, and
\* the longest streak is more than that
C3_Witness ==
    /\ resp.op = "get_current_streak" /\ resp.habit_id = 1 /\ resp.value = 2
    /\ \E e \in entries : e.habit_id = 1 /\ resp.reference_date < e.date
    /\ get_longest_streak(1) > 2

\* C8: a completion rate is between 0 and 100; it is 0 when no record in the
\* window is completed and when the window has no days, and 100 when every
\* day of the window has a completed record.  The same of the rates the
\* week view computes itself (in tenths)
C8_RateInRange ==
    /\ resp.op = "get_completion_rate" =>
           LET days == resp.start_date..resp.end_date
               none == \A d \in days : ~completed_on(resp.habit_id, d)
               all == days # {} /\ \A d \in days : completed_on(resp.habit_id, d)
           IN  /\ 0 <= resp.value.n /\ resp.value.n <= 100 * resp.value.d
               /\ none => resp.value.n = 0
               /\ all => resp.value.n = 100 * resp.value.d
    /\ resp.op = "week_view" =>
           \A id \in DOMAIN resp.stats :
               LET days == resp.start_date..resp.end_date
                   rate == resp.stats[id].rate
               IN  /\ 0 <= rate /\ rate <= 1000
                   /\ (\A d \in days : ~completed_on(id, d)) => rate = 0
                   /\ (\A d \in days : completed_on(id, d)) => rate = 1000

\* a window of three days, each with a completed record, while the habit has
\* records outside the window as well: the rate is 100
C8_Witness ==
    /\ resp.op = "get_completion_rate" /\ resp.habit_id = 1
    /\ resp.start_date = RefDay - 3 /\ resp.end_date = RefDay - 1
    /\ \A d \in resp.start_date..resp.end_date : completed_on(1, d)
    /\ completed_on(1, RefDay)
    /\ resp.value.n = 100 * resp.value.d

----------------------------------------------------------------------------
(* get_longest_streak on fifteen days of records *)

LongestDays == date(2025, 1, 1)..date(2025, 1, 15)

\* the rows of habit 1: a completed record on the days of done and, with
\* undone, a record with completed = False on every other day
longest_rows(done, undone) ==
    {[id |-> d - date(2025, 1, 1) + 1, habit_id |-> 1, date |-> d,
      completed |-> (d \in done)] : d \in {x \in LongestDays : undone \/ x \in done}}

InitLongest ==
    /\ habits = {[id |-> 1, user_id |-> 1, position |-> 0]}
    /\ entries \in {longest_rows(done, undone) :
                       done \in SUBSET LongestDays, undone \in BOOLEAN}
    /\ resp = [op |-> "start", status |-> 0]
    /\ Started

NextLongest == call_get_longest_streak(1)

SpecLongest == InitLongest /\ [][NextLongest]_vars

\* the length of the longest run of consecutive dates in a set of dates
longest_run(S) ==
    IF S = {} THEN 0
    ELSE Max({k \in 1..Cardinality(S) :
                 \E d \in S : \A i \in 0..(k - 1) : (d + i) \in S})

\* C2: get_longest_streak is the length of the longest run of
\* calendar-consecutive dates with a completed record, 0 without any
C2_LongestIsLongestRun ==
    resp.op = "get_longest_streak" =>
        resp.value = longest_run({e.date : e \in longest_query(resp.habit_id)})

\* completed on 2025-01-01..03 and 2025-01-10..15, records with
\* completed = False in between: the longest streak is 6
C2_Witness ==
    /\ resp.op = "get_longest_streak" /\ resp.value = 6
    /\ {e.date : e \in longest_query(1)} =
           (date(2025, 1, 1)..date(2025, 1, 3)) \cup (date(2025, 1, 10)..date(2025, 1, 15))
    /\ \E e \in entries : ~e.completed

----------------------------------------------------------------------------
(* The week view asked for any year and week *)

MaxWeek == 60
Years == 2020..2030
Weeks == 0..MaxWeek

InitWindow ==
    /\ habits \in {{}, {[id |-> 1, user_id |-> 1, position |-> 0]}}
    /\ entries = {[id |-> 1, habit_id |-> h.id, date |-> RefDay, completed |-> TRUE] :
                     h \in habits}
    /\ resp = [op |-> "start", status |-> 0]
    /\ Started

NextWindow == \E year \in Years, week \in Weeks : week_view(1, year, week)

SpecWindow == InitWindow /\ [][NextWindow]_vars

\* C5: a week number outside 1..53 is rejected: the week view answers with an
\* error and computes no window for it
C5_InvalidWeekRejected ==
    (resp.op = "week_view" /\ resp.week \notin 1..53) => resp.status # 200

\* C6: the window start is a Monday and the end is 6 days after the start
C6_WindowStartsOnMonday ==
    resp.op = "week_view" =>
        /\ weekday(resp.start_date) = 0
        /\ resp.end_date - resp.start_date = 6

\* ISO week 39 of 2025 is 2025-09-22 .. 2025-09-28
C6_Witness ==
    /\ resp.op = "week_view" /\ resp.year = 2025 /\ resp.week = 39
    /\ resp.start_date = date(2025, 9, 22)
    /\ resp.end_date = date(2025, 9, 28)

----------------------------------------------------------------------------
(* The week view of 2025 week 39 over fifteen days of records *)

TrendDays == date(2025, 9, 14)..date(2025, 9, 28)

trend_rows(done) ==
    {[id |-> d - date(2025, 9, 14) + 1, habit_id |-> 1, date |-> d,
      completed |-> TRUE] : d \in done}

InitWeek ==
    /\ habits = {[id |-> 1, user_id |-> 1, position |-> 0]}
    /\ entries \in {trend_rows(done) : done \in SUBSET TrendDays}
    /\ resp = [op |-> "start", status |-> 0]
    /\ Started

NextWeek == week_view(1, 2025, 39)

SpecWeek == InitWeek /\ [][NextWeek]_vars

\* the days from a to b on which the habit has a completed record
completed_days(habit_id, a, b) ==
    Cardinality({d \in a..b : completed_on(habit_id, d)})

\* C7 as stated: 5 completed days in the 7 days ending 2025-09-28 and 2 in
\* 2025-09-14..2025-09-20, and no other completed day, give a trend of 42.9
C7_TrendAsStated ==
    ( /\ resp.op = "week_view" /\ resp.end_date = date(2025, 9, 28)
      /\ completed_days(1, date(2025, 9, 22), date(2025, 9, 28)) = 5
      /\ completed_days(1, date(2025, 9, 14), date(2025, 9, 20)) = 2
      /\ ~completed_on(1, date(2025, 9, 21)) )
    => resp.stats[1].trend = 429

\* C7: 5 completed days in the 7 days ending 2025-09-28 and 2 in the 7 days
\* before them, 2025-09-15..2025-09-21, give a trend of 42.9
C7_TrendOfScenario ==
    ( /\ resp.op = "week_view" /\ resp.end_date = date(2025, 9, 28)
      /\ completed_days(1, date(2025, 9, 22), date(2025, 9, 28)) = 5
      /\ completed_days(1, date(2025, 9, 15), date(2025, 9, 21)) = 2 )
    => resp.stats[1].trend = 429

\* the scenario with 2025-09-21 among the two earlier days
C7_Witness ==
    /\ resp.op = "week_view" /\ resp.end_date = date(2025, 9, 28)
    /\ completed_days(1, date(2025, 9, 22), date(2025, 9, 28)) = 5
    /\ completed_days(1, date(2025, 9, 15), date(2025, 9, 21)) = 2
    /\ completed_on(1, date(2025, 9, 21))
    /\ resp.stats[1].trend = 429

----------------------------------------------------------------------------
(* The week view of 2025 week 39 for a user with several habits *)

MaxWeekHabits == 3

\* done[h]: the days of ToggleDates habit h is completed on
overall_rows(done) ==
    {[id |-> 2 * p[1] - (RefDay - p[2]), habit_id |-> p[1], date |-> p[2],
      completed |-> TRUE] :
        p \in {q \in (DOMAIN done) \X ToggleDates : q[2] \in done[q[1]]}}

InitOverall ==
    \E k \in 0..MaxWeekHabits :
        /\ habits = {[id |-> h, user_id |-> 1, position |-> h - 1] : h \in 1..k}
        /\ entries \in {overall_rows(done) : done \in [1..k -> SUBSET ToggleDates]}
        /\ resp = [op |-> "start", status |-> 0]
        /\ Started

NextOverall == \E u \in Users : week_view(u, 2025, 39)

SpecOverall == InitOverall /\ [][NextOverall]_vars

\* C9: the overall rate is the arithmetic mean of the per-habit rates rounded
\* to one decimal place, and 0 when the user has no habits
C9_OverallRoundedToOneDecimal ==
    resp.op = "week_view" =>
        LET ids == DOMAIN resp.stats
            mean == IF ids = {} THEN frac(0, 1)
                    ELSE frac(SumOver(ids, [id \in ids |-> resp.stats[id].rate]),
                              10 * Cardinality(ids))
        IN  10 * resp.overall_rate.n = round1(mean) * resp.overall_rate.d

\* C12: the week view reads the completion records with a single batch fetch
\* for all habits: the fetches of a request do not grow with the habits
C12_SingleBatchFetch ==
    resp.op = "week_view" => resp.entry_fetches <= 1

\* what belongs to user v in tables H and E: v's habits and their records
habits_owned(H, v) == {h \in H : h.user_id = v}

records_owned(H, E, v) ==
    {e \in E : \E h \in H : h.id = e.habit_id /\ h.user_id = v}

owns(u, habit_id) == \E h \in habits : h.id = habit_id /\ h.user_id = u

\* the day the toggles of a session name
SessionDates == {RefDay}

\* the requests of user u's session; each leaves its name in the response
session_request(u) ==
    \/ /\ resp'.op = "api_create_habit"
       /\ api_create_habit(u)
    \/ /\ resp'.op = "api_update_habit"
       /\ \E id \in HabitIds, hasPos \in BOOLEAN, pos \in PositionInputs :
              api_update_habit(u, id, hasPos, pos)
    \/ /\ resp'.op = "api_delete_habit"
       /\ \E id \in HabitIds : api_delete_habit(u, id)
    \/ /\ resp'.op = "api_toggle"
       /\ \E id \in HabitIds, d \in SessionDates : api_toggle(u, id, d)

\* a request of u that names habit habit_id
names_habit(u, habit_id) ==
    \/ /\ resp'.op = "api_update_habit"
       /\ \E hasPos \in BOOLEAN, pos \in PositionInputs :
              api_update_habit(u, habit_id, hasPos, pos)
    \/ /\ resp'.op = "api_delete_habit"
       /\ api_delete_habit(u, habit_id)
    \/ /\ resp'.op = "api_toggle"
       /\ \E d \in SessionDates : api_toggle(u, habit_id, d)

\* the web requests alone, from the empty database
NextSession ==
    \/ \E u \in Users : api_create_habit(u)
    \/ \E u \in Users, id \in HabitIds, hasPos \in BOOLEAN, pos \in PositionInputs :
           api_update_habit(u, id, hasPos, pos)
    \/ \E u \in Users, id \in HabitIds : api_delete_habit(u, id)
    \/ \E u \in Users, id \in HabitIds, d \in SessionDates : api_toggle(u, id, d)

SpecSession == Init /\ [][NextSession]_vars

\* a step that is not a 404 leaving both tables alone is no request of a user
\* naming a habit the user does not own
NotFoundChangesNothing ==
    \/ (resp'.status = 404 /\ habits' = habits /\ entries' = entries)
    \/ \A u \in Users, id \in HabitIds : ~(~owns(u, id) /\ names_habit(u, id))

\* a step that changes rows of v is a request of no other user's session
OtherUsersUntouched ==
    \A v \in Users \cup {NoUser} :
        \/ /\ habits_owned(habits', v) = habits_owned(habits, v)
           /\ records_owned(habits, entries', v) = records_owned(habits, entries, v)
        \/ \A u \in Users \ {v} : ~session_request(u)

\* C14: api_update_habit, api_delete_habit and api_toggle on a habit id that is
\* missing or owned by another user answer 404 and change no habit and no
\* record; a request changes only rows of the user whose session made it
C14_UserIsolation ==
    [][NotFoundChangesNothing /\ OtherUsersUntouched]_vars

\* both users own a habit, records exist, and a toggle naming one of the
\* habits was answered 404: every id is taken, so it named the other user's
C14_Witness ==
    /\ resp.op = "api_toggle" /\ resp.status = 404
    /\ \A u \in Users : habits_owned(habits, u) # {}
    /\ \A id \in HabitIds : \E h \in habits : h.id = id
    /\ entries # {}

----------------------------------------------------------------------------
(* Requests served by concurrent worker threads, next to the seed command *)

\* the module imported by a WSGI server (__main__ does not run): the database
\* file holds a habit of each user, the flag is unset, no request has come
InitWorkers ==
    /\ habits = {[id |-> 1, user_id |-> 1, position |-> 0],
                 [id |-> 2, user_id |-> 2, position |-> 0]}
    /\ entries = {}
    /\ resp = [op |-> "start", status |-> 0]
    /\ db_ready = FALSE
    /\ setups = 0
    /\ threads = [t \in Threads |-> Idle]
    /\ seeding = NotSeeding

\* POST /api/toggle of user u for habit_id and today arrives at worker t
request(t, u, habit_id) ==
    /\ threads[t].pc = "idle"
    /\ threads' = [threads EXCEPT ![t] =
           [Idle EXCEPT !.pc = "before_request", !.u = u,
                        !.habit_id = habit_id, !.date = RefDay]]
    /\ UNCHANGED <<habits, entries, resp, db_ready, setups, seeding>>

\* ensure_db_ready: if _db_ready: return
ensure_check(t) ==
    /\ threads[t].pc = "before_request"
    /\ threads' = [threads EXCEPT ![t].pc = IF db_ready THEN "handler" ELSE "setup"]
    /\ UNCHANGED <<habits, entries, resp, db_ready, setups, seeding>>

\* the setup body: create_all and the two migrations, on tables that exist
ensure_setup(t) ==
    /\ threads[t].pc = "setup"
    /\ setups' = setups + 1
    /\ threads' = [threads EXCEPT ![t].pc = "set_flag"]
    /\ UNCHANGED <<habits, entries, resp, db_ready, seeding>>

\* _db_ready = True
ensure_set_flag(t) ==
    /\ threads[t].pc = "set_flag"
    /\ db_ready' = TRUE
    /\ threads' = [threads EXCEPT ![t].pc = "handler"]
    /\ UNCHANGED <<habits, entries, resp, setups, seeding>>

\* api_toggle up to the Entry query: the habit lookup, 404 without the habit,
\* then the first entry of (habit, date) as the session loads it
toggle_read(t) ==
    LET th == threads[t]
        found == habit_of(th.habit_id, current_user(th.u))
        hit == entry_of(th.habit_id, th.date) IN
    /\ th.pc = "handler"
    /\ IF found = {} THEN
           /\ resp' = [op |-> "api_toggle", status |-> 404]
           /\ threads' = [threads EXCEPT ![t] = Idle]
       ELSE
           /\ threads' = [threads EXCEPT ![t] =
                  [th EXCEPT !.pc = "commit",
                             !.entry = IF hit = {} THEN 0 ELSE first(hit).id,
                             !.completed = IF hit = {} THEN FALSE
                                           ELSE first(hit).completed]]
           /\ UNCHANGED resp
    /\ UNCHANGED <<habits, entries, db_ready, setups, seeding>>

\* the rest of api_toggle: with an entry loaded, commit writes the negation of
\* the loaded flag to that row; without, commit INSERTs a row, which the
\* unique constraint of the table rejects when the pair has got one meanwhile
\* (IntegrityError, answered 500).  A write waits while the seed command's
\* transaction holds the write lock of the database file
toggle_commit(t) ==
    LET th == threads[t]
        row == [id |-> next_rowid(entries), habit_id |-> th.habit_id,
                date |-> th.date, completed |-> TRUE] IN
    /\ th.pc = "commit"
    /\ seeding.flushed = {}
    /\ IF th.entry # 0 THEN
           /\ entries' = {IF e.id = th.entry
                             THEN [e EXCEPT !.completed = ~th.completed]
                             ELSE e : e \in entries}
           /\ resp' = [op |-> "api_toggle", status |-> 200]
       ELSE IF habit_date_uc(entries \cup {row}) THEN
           /\ entries' = entries \cup {row}
           /\ resp' = [op |-> "api_toggle", status |-> 200]
       ELSE
           /\ UNCHANGED entries
           /\ resp' = [op |-> "api_toggle", status |-> 500,
                       error |-> "IntegrityError"]
    /\ threads' = [threads EXCEPT ![t] = Idle]
    /\ UNCHANGED <<habits, db_ready, setups, seeding>>

\* seed_test_data walks range(30) x Habit.query.all(); the model follows it
\* over today, where the toggles are: the habits in rowid order
RECURSIVE by_rowid(_)
by_rowid(ids) ==
    IF ids = {} THEN <<>>
    ELSE LET m == CHOOSE x \in ids : \A y \in ids : x <= y
         IN  <<m>> \o by_rowid(ids \ {m})

seed_habits == by_rowid({h.id : h \in habits})

\* the session's autoflush before a query and before the commit: the pending
\* Entry objects are INSERTed in the open transaction, each with the next rowid
seed_flush(sd) ==
    sd.flushed \cup
        {[id |-> next_rowid(entries \cup sd.flushed), habit_id |-> h,
          date |-> RefDay, completed |-> TRUE] : h \in sd.pending}

\* IntegrityError out of a flush: the command dies, its transaction is undone
seed_crash ==
    /\ seeding' = NotSeeding
    /\ resp' = [op |-> "seed_test_data", status |-> 1, error |-> "IntegrityError"]
    /\ UNCHANGED entries

\* python db_utils.py seed, with habits in the table (no default habits added)
seed_start ==
    /\ seeding.pc = "off"
    /\ habits # {}
    /\ seeding' = [NotSeeding EXCEPT !.pc = "loop"]
    /\ UNCHANGED <<habits, entries, resp, db_ready, setups, threads>>

\* random.random() >= 0.7: the pair is passed over
seed_skip ==
    /\ seeding.pc = "loop"
    /\ seeding.i < Len(seed_habits)
    /\ seeding' = [seeding EXCEPT !.i = @ + 1]
    /\ UNCHANGED <<habits, entries, resp, db_ready, setups, threads>>

\* random.random() < 0.7: Entry.query ... .first() (after the autoflush, over
\* the committed rows and the transaction's own), then add(entry) if none
seed_check ==
    LET h == seed_habits[seeding.i + 1]
        mine == seed_flush(seeding)
        seen == {e \in entries \cup mine : e.habit_id = h /\ e.date = RefDay} IN
    /\ seeding.pc = "loop"
    /\ seeding.i < Len(seed_habits)
    /\ IF habit_date_uc(entries \cup mine) THEN
           /\ seeding' = [pc |-> "loop", i |-> seeding.i + 1, flushed |-> mine,
                          pending |-> IF seen = {} THEN {h} ELSE {}]
           /\ UNCHANGED <<entries, resp>>
       ELSE seed_crash
    /\ UNCHANGED <<habits, db_ready, setups, threads>>

\* db.session.commit() after the loops
seed_commit ==
    LET mine == seed_flush(seeding) IN
    /\ seeding.pc = "loop"
    /\ seeding.i = Len(seed_habits)
    /\ IF habit_date_uc(entries \cup mine) THEN
           /\ entries' = entries \cup mine
           /\ seeding' = NotSeeding
           /\ resp' = [op |-> "seed_test_data", status |-> 0]
       ELSE seed_crash
    /\ UNCHANGED <<habits, db_ready, setups, threads>>

NextWorkers ==
    \/ \E t \in Threads, u \in Users, id \in HabitIds : request(t, u, id)
    \/ \E t \in Threads : ensure_check(t)
    \/ \E t \in Threads : ensure_setup(t)
    \/ \E t \in Threads : ensure_set_flag(t)
    \/ \E t \in Threads : toggle_read(t)
    \/ \E t \in Threads : toggle_commit(t)
    \/ seed_start
    \/ seed_skip
    \/ seed_check
    \/ seed_commit

SpecWorkers == InitWorkers /\ [][NextWorkers]_vars

\* C13: the setup body of ensure_db_ready runs at most once, whatever the
\* interleaving of the first requests; _db_ready, once true, stays true; a
\* call that finds it true does nothing
C13_SetupRunsAtMostOnce ==
    /\ [](setups <= 1)
    /\ [][db_ready => db_ready']_vars
    /\ [][\A t \in Threads :
            (db_ready /\ threads[t].pc = "before_request"
                      /\ threads'[t].pc # "before_request")
                => (setups' = setups /\ threads'[t].pc = "handler")]_vars

\* the records of a (habit, date) pair in table E
records_of(E, habit_id, d) == {e \in E : e.habit_id = habit_id /\ e.date = d}

OneRecordPerHabitDate ==
    \A e \in entries : Cardinality(records_of(entries, e.habit_id, e.date)) = 1

\* what the commit of worker t's toggle does to the table: on a pair without
\* a record it adds one record, completed; on a pair with a record it adds
\* none and leaves the pair its one record, whose flag is the negation of the
\* flag the toggle loaded (a toggle that had loaded none is turned down)
ToggleEffect ==
    \A t \in Threads :
        (threads[t].pc = "commit" /\ threads'[t].pc = "idle") =>
            LET th == threads[t]
                before == records_of(entries, th.habit_id, th.date)
                after == records_of(entries', th.habit_id, th.date) IN
            /\ entries' \ after = entries \ before
            /\ Cardinality(after) = 1
            /\ before = {} =>
                   /\ \A e \in after : e.completed /\ e.id \notin {x.id : x \in entries}
                   /\ resp'.status = 200
            /\ before # {} =>
                   /\ {e.id : e \in after} = {e.id : e \in before}
                   /\ IF th.entry # 0
                      THEN /\ \A e \in after : e.completed = ~th.completed
                           /\ resp'.status = 200
                      ELSE /\ after = before
                           /\ resp'.status = 500

====
